---------------------------- MODULE Spec2Model ----------------------------
(***************************************************************************)
(* ksolana/ringbuf: three ring buffers.                                    *)
(*                                                                         *)
(*   - spsc_lockfree_bounded.rs  SPSCRingBuffer<T>: the lock-free engine,  *)
(*     one producer thread (push) and one consumer thread (pop).  Every    *)
(*     atomic load, slot access and atomic store of push and pop is one    *)
(*     step, and the steps of the two threads interleave freely.           *)
(*   - mpsc_lockfree_bounded.rs  RingBuffer<T>: the same algorithm used by *)
(*     several producers.                                                  *)
(*   - lib.rs  SPSCRingBuffer: the single-threaded buffer with force_push. *)
(*                                                                         *)
(* Memory orderings.  Each cursor has one writer.  A thread loads its own   *)
(* cursor Relaxed (it always sees its own last store) and the other        *)
(* thread's cursor Acquire, paired with that thread's Release store, which *)
(* also orders the slot access before the store.  Every load, slot access  *)
(* and store is modelled as one atomic step that sees the latest stores;   *)
(* a load that returns an older value of the other thread's cursor is the  *)
(* same load taken earlier in the interleaving.                            *)
(* print_status (two SeqCst loads and a println) changes no state and is   *)
(* not a step.                                                             *)
(***************************************************************************)
EXTENDS Integers, Sequences, FiniteSets

(* Bounds of the model. *)
MaxCap == 3
MaxPush == 5
MaxValue == 2

(* The values a caller pushes (u64 in the tests). *)
Values == 1..MaxValue

(* std::mem::zeroed() of a u64 slot. *)
Zeroed == 0

VARIABLES
  \* SPSCRingBuffer<T> (spsc_lockfree_bounded.rs)
  capacity, buffer, write, read,
  \* the producer thread inside push: its position and its locals
  p_pc, p_value, p_write, p_next_write, p_ret,
  \* the consumer thread inside pop: its position and its locals
  c_pc, c_read, c_write, c_value, c_ret, c_last,
  \* history: the values of the pushes that returned Ok, the values of the
  \* pops that returned Some, the number of push calls made
  pushed, popped, p_calls,
  \* ownership of the values: for each slot the accepted push (counted
  \* from 1) whose value the slot holds, 0 for the zeroed value, and the
  \* pushes whose value the buffer has dropped
  held, dropped,
  \* how far a push into an empty buffer followed at once by a pop has got
  rt,
  \* tests::spsc_ring_buffer: the signal t, the per-slot trackers, the
  \* producer's loop variable i, the position of each of the two threads
  t, tracker, st_i, st_ppc, st_cpc,
  \* RingBuffer<T> (mpsc_lockfree_bounded.rs)
  mp_capacity, mp_buffer, mp_write, mp_read,
  \* each producer thread inside try_push: position, locals, calls made
  mp_pc, mp_item, mp_head, mp_next_head, mp_ret, mp_calls,
  \* the consumer thread inside RingBuffer::pop, and the items it popped
  mc_pc, mc_tail, mc_item, mc_ret, mp_popped,
  \* SPSCRingBuffer (lib.rs): its fields, the result of the last call,
  \* whether the build checks integer overflow, whether a call panicked
  sq_buffer, sq_read, sq_write, sq_ret, sq_checks, sq_panicked,
  \* the calls made since the first u64 subtraction that wrapped, it included
  sq_after,
  \* history of the calls made on it: their shape so far, the number of
  \* force_push calls, the last capacity() values force-pushed, the
  \* results of the pops made after them
  sq_mode, sq_forced, sq_recent, sq_drain,
  \* the last call made on it, the values pushed and neither popped nor
  \* evicted by force_push (oldest first), whether the write cursor has
  \* passed the cursor modulus
  sq_op, sq_resident, sq_wrapped

engVars == <<capacity, buffer, write, read>>
prodVars == <<p_pc, p_value, p_write, p_next_write, p_ret>>
consVars == <<c_pc, c_read, c_write, c_value, c_ret, c_last>>
histVars == <<pushed, popped, p_calls, held, dropped, rt>>
stVars == <<t, tracker, st_i, st_ppc, st_cpc>>
mpVars ==
  <<mp_capacity, mp_buffer, mp_write, mp_read, mp_pc, mp_item, mp_head,
    mp_next_head, mp_ret, mp_calls, mc_pc, mc_tail, mc_item, mc_ret, mp_popped>>
sqVars ==
  <<sq_buffer, sq_read, sq_write, sq_ret, sq_checks, sq_panicked, sq_after,
    sq_mode, sq_forced, sq_recent, sq_drain, sq_op, sq_resident, sq_wrapped>>
vars == <<engVars, prodVars, consVars, histVars, stVars, mpVars, sqVars>>

(* No call has returned yet. *)
NoRet == [tag |-> "NoRet"]

(* push returning the index after the slot it filled. *)
OkOfNext(idx) == [tag |-> "Ok", n |-> idx + 1]

(* Result<usize, SPSCRingBufferError> of push. *)
Ok(idx) == [tag |-> "Ok", n |-> idx]

(* A rejected push hands back the submitted value. *)
PushErrorOfValue(w, v) == [tag |-> "PushError", n |-> v]

(* Err(SPSCRingBufferError::PushError(write)): the payload is the write     *)
(* cursor; the submitted value v is dropped.                               *)
PushError(w, v) == [tag |-> "PushError", n |-> w]

(* Option<(usize, T)> of pop. *)
None == [tag |-> "None"]

Some(idx, v) == [tag |-> "Some", idx |-> idx, val |-> v]

(* (i + 1) % self.capacity *)
NextIdx(i, cap) == (i + 1) % cap

(* A full check that never rejects. *)
IsFullNever(next_write, r) == FALSE

(* A full check that always rejects. *)
IsFullAlways(next_write, r) == TRUE

(* next_write == self.read.load(Acquire): the buffer is full. *)
IsFull(next_write, r) == next_write = r

(* An empty check that also reports empty when one element is resident. *)
emptyOffByOne(read_idx, write_idx) == read_idx = write_idx \/ NextIdx(read_idx, capacity) = write_idx

(* An empty check that uses the comparison of the full check. *)
emptyConfused(read_idx, write_idx) == NextIdx(read_idx, capacity) = write_idx

(* pub fn empty(read_idx, write_idx) -> bool *)
empty(read_idx, write_idx) == read_idx = write_idx

(* SPSCRingBuffer::new(capacity): `capacity` zeroed slots, both cursors 0. *)
New(cap) ==
  /\ capacity = cap
  /\ buffer = [i \in 0..(cap - 1) |-> Zeroed]
  /\ write = 0
  /\ read = 0
  /\ p_pc = "idle" /\ p_value = Zeroed /\ p_write = 0 /\ p_next_write = 0
  /\ p_ret = NoRet
  /\ c_pc = "idle" /\ c_read = 0 /\ c_write = 0 /\ c_value = Zeroed
  /\ c_ret = NoRet /\ c_last = NoRet
  /\ pushed = <<>> /\ popped = <<>> /\ p_calls = 0
  /\ held = [i \in 0..(cap - 1) |-> 0]
  /\ dropped = {}
  /\ rt = "none"

(*************************** push, step by step ***************************)

(* push, with the slot written before the full check. *)
push_load_write_stores(v) ==
  /\ p_pc = "idle"
  /\ p_value' = v
  /\ p_write' = write
  /\ p_next_write' = NextIdx(write, capacity)
  /\ p_ret' = NoRet
  /\ p_pc' = "load_read"
  /\ buffer' = [buffer EXCEPT ![write] = v]
  /\ UNCHANGED <<capacity, write, read, pushed, popped, held, dropped>>

(* let write = self.write.load(Relaxed);                                   *)
(* let next_write = (write + 1) % self.capacity;                           *)
push_load_write(v) ==
  /\ p_pc = "idle"
  /\ p_value' = v
  /\ p_write' = write
  /\ p_next_write' = NextIdx(write, capacity)
  /\ p_ret' = NoRet
  /\ p_pc' = "load_read"
  /\ UNCHANGED <<engVars, pushed, popped, held, dropped>>

(* push, with the write cursor published before the slot is written. *)
push_load_read_publishes ==
  /\ p_pc = "load_read"
  /\ IF IsFull(p_next_write, read)
       THEN /\ p_ret' = PushError(p_write, p_value)
            /\ p_pc' = "idle"
            /\ write' = write
       ELSE /\ p_ret' = p_ret
            /\ p_pc' = "store_slot"
            /\ write' = p_next_write
  /\ UNCHANGED <<p_value, p_write, p_next_write>>
  /\ UNCHANGED <<capacity, buffer, read, pushed, popped, held, dropped>>

(* if next_write == self.read.load(Acquire) { return Err(PushError(write)) } *)
push_load_read ==
  /\ p_pc = "load_read"
  /\ IF IsFull(p_next_write, read)
       THEN /\ p_ret' = PushError(p_write, p_value)
            /\ p_pc' = "idle"
       ELSE /\ p_ret' = p_ret
            /\ p_pc' = "store_slot"
  /\ UNCHANGED <<p_value, p_write, p_next_write>>
  /\ UNCHANGED <<engVars, pushed, popped, held, dropped>>

(* The assignment to *self.buffer[write].get() drops the value the place    *)
(* holds before it stores the new one: the value of accepted push k, or    *)
(* the zeroed value (k = 0), which no push submitted.                      *)
DropInPlace(k) == IF k = 0 THEN {} ELSE {k}

(* unsafe { *self.buffer[write].get() = value; } *)
push_store_slot ==
  /\ p_pc = "store_slot"
  /\ dropped' = dropped \cup DropInPlace(held[p_write])
  /\ buffer' = [buffer EXCEPT ![p_write] = p_value]
  /\ held' = [held EXCEPT ![p_write] = Len(pushed) + 1]
  /\ p_pc' = "store_write"
  /\ UNCHANGED <<p_value, p_write, p_next_write, p_ret>>
  /\ UNCHANGED <<capacity, write, read, pushed, popped>>

(* self.write.store(next_write, Release); Ok(write) *)
push_store_write ==
  /\ p_pc = "store_write"
  /\ write' = p_next_write
  /\ p_ret' = Ok(p_write)
  /\ p_pc' = "idle"
  /\ pushed' = Append(pushed, p_value)
  /\ UNCHANGED <<p_value, p_write, p_next_write>>
  /\ UNCHANGED <<capacity, buffer, read, popped, held, dropped>>

(**************************** pop, step by step ***************************)

(* let read = self.read.load(Relaxed); *)
pop_load_read ==
  /\ c_pc = "idle"
  /\ c_read' = read
  /\ c_last' = c_ret
  /\ c_ret' = NoRet
  /\ c_pc' = "load_write"
  /\ UNCHANGED <<c_write, c_value>>
  /\ UNCHANGED <<engVars, pushed, popped, held, dropped>>

(* pop, with the read cursor advanced before the empty check. *)
pop_load_write_advances ==
  /\ c_pc = "load_write"
  /\ c_write' = write
  /\ read' = NextIdx(c_read, capacity)
  /\ IF empty(c_read, write)
       THEN /\ c_ret' = None
            /\ c_pc' = "idle"
       ELSE /\ c_ret' = c_ret
            /\ c_pc' = "read_slot"
  /\ UNCHANGED <<c_read, c_value, c_last>>
  /\ UNCHANGED <<capacity, buffer, write, pushed, popped, held, dropped>>

(* let write = self.write.load(Acquire); if empty(read, write) { return None } *)
pop_load_write ==
  /\ c_pc = "load_write"
  /\ c_write' = write
  /\ IF empty(c_read, write)
       THEN /\ c_ret' = None
            /\ c_pc' = "idle"
       ELSE /\ c_ret' = c_ret
            /\ c_pc' = "read_slot"
  /\ UNCHANGED <<c_read, c_value, c_last>>
  /\ UNCHANGED <<engVars, pushed, popped, held, dropped>>

(* pop, reading the slot after the one at the read cursor. *)
pop_read_slot_next ==
  /\ c_pc = "read_slot"
  /\ c_value' = buffer[NextIdx(c_read, capacity)]
  /\ c_pc' = "store_read"
  /\ UNCHANGED <<c_read, c_write, c_ret, c_last>>
  /\ UNCHANGED <<engVars, pushed, popped, held, dropped>>

(* let value = unsafe { std::ptr::read(self.buffer[read].get()) }; *)
pop_read_slot ==
  /\ c_pc = "read_slot"
  /\ c_value' = buffer[c_read]
  /\ c_pc' = "store_read"
  /\ UNCHANGED <<c_read, c_write, c_ret, c_last>>
  /\ UNCHANGED <<engVars, pushed, popped, held, dropped>>

(* pop, advancing the read cursor by two slots. *)
pop_store_read_skips ==
  /\ c_pc = "store_read"
  /\ read' = NextIdx(NextIdx(c_read, capacity), capacity)
  /\ c_ret' = Some(c_read, c_value)
  /\ c_pc' = "idle"
  /\ popped' = Append(popped, c_value)
  /\ UNCHANGED <<c_read, c_write, c_value, c_last>>
  /\ UNCHANGED <<capacity, buffer, write, pushed, held, dropped>>

(* self.read.store((read + 1) % self.capacity, Release); Some((read, value)) *)
pop_store_read ==
  /\ c_pc = "store_read"
  /\ read' = NextIdx(c_read, capacity)
  /\ c_ret' = Some(c_read, c_value)
  /\ c_pc' = "idle"
  /\ popped' = Append(popped, c_value)
  /\ UNCHANGED <<c_read, c_write, c_value, c_last>>
  /\ UNCHANGED <<capacity, buffer, write, pushed, held, dropped>>

(* The state of the other programs of this module, which the lock-free     *)
(* engine's threads leave alone.                                           *)
outside == <<stVars, mpVars, sqVars>>

(* tests::spsc_ring_buffer is not running. *)
StressOff ==
  /\ t = 0 /\ tracker = <<>> /\ st_i = 0
  /\ st_ppc = "off" /\ st_cpc = "off"

(* No thread uses the lock-free engine: an instance nobody calls. *)
SpscOff == New(1)

(* The producer threads of the multi-producer variant. *)
Producers == {1, 2}

(* No RingBuffer of mpsc_lockfree_bounded.rs is in use. *)
MpscOff ==
  /\ mp_capacity = 0 /\ mp_buffer = <<>> /\ mp_write = 0 /\ mp_read = 0
  /\ mp_pc = [p \in Producers |-> "off"]
  /\ mp_item = [p \in Producers |-> Zeroed]
  /\ mp_head = [p \in Producers |-> 0]
  /\ mp_next_head = [p \in Producers |-> 0]
  /\ mp_ret = [p \in Producers |-> NoRet]
  /\ mp_calls = [p \in Producers |-> 0]
  /\ mc_pc = "off" /\ mc_tail = 0 /\ mc_item = Zeroed /\ mc_ret = NoRet
  /\ mp_popped = <<>>

(* No SPSCRingBuffer of lib.rs is in use. *)
SeqOff ==
  /\ sq_buffer = <<>> /\ sq_read = 0 /\ sq_write = 0 /\ sq_ret = NoRet
  /\ sq_checks = FALSE /\ sq_panicked = FALSE /\ sq_after = 0
  /\ sq_mode = "off" /\ sq_forced = 0 /\ sq_recent = <<>> /\ sq_drain = <<>>
  /\ sq_op = "none" /\ sq_resident = <<>> /\ sq_wrapped = FALSE

(************ one producer thread and one consumer thread ****************)

(* A step of the call that is under way in the phase `during` keeps the    *)
(* phase, and ends it in `after` when the call returns (pc is the thread's *)
(* position after the step); a step of any other call leaves the scenario. *)
RtAfter(during, after, pc) ==
  IF rt = during THEN (IF pc = "idle" THEN after ELSE during) ELSE "none"

(* The producer calls push(v) with any value, MaxPush times at most. *)
ProducerCall ==
  /\ p_calls < MaxPush
  /\ \E v \in Values : push_load_write(v)
  /\ p_calls' = p_calls + 1
  /\ rt' = IF c_pc = "idle" /\ empty(read, write) THEN "pushing" ELSE "none"
  /\ UNCHANGED <<consVars, outside>>

ProducerLoadRead ==
  /\ push_load_read
  /\ rt' = RtAfter("pushing", "pushed", p_pc')
  /\ UNCHANGED <<consVars, p_calls, outside>>

ProducerStoreSlot ==
  /\ push_store_slot
  /\ rt' = RtAfter("pushing", "pushed", p_pc')
  /\ UNCHANGED <<consVars, p_calls, outside>>

ProducerStoreWrite ==
  /\ push_store_write
  /\ rt' = RtAfter("pushing", "pushed", p_pc')
  /\ UNCHANGED <<consVars, p_calls, outside>>

(* The consumer calls pop() again and again. *)
ConsumerCall ==
  /\ pop_load_read
  /\ rt' = IF rt = "pushed" THEN "popping" ELSE "none"
  /\ UNCHANGED <<prodVars, p_calls, outside>>

ConsumerLoadWrite ==
  /\ pop_load_write
  /\ rt' = RtAfter("popping", "popped", c_pc')
  /\ UNCHANGED <<prodVars, p_calls, outside>>

ConsumerReadSlot ==
  /\ pop_read_slot
  /\ rt' = RtAfter("popping", "popped", c_pc')
  /\ UNCHANGED <<prodVars, p_calls, outside>>

ConsumerStoreRead ==
  /\ pop_store_read
  /\ rt' = RtAfter("popping", "popped", c_pc')
  /\ UNCHANGED <<prodVars, p_calls, outside>>

(* SPSCRingBuffer::new(0) is left out: its first push divides by zero. *)
Init == (\E cap \in 1..MaxCap : New(cap)) /\ StressOff /\ MpscOff /\ SeqOff

Next ==
  \/ ProducerCall
  \/ ProducerLoadRead
  \/ ProducerStoreSlot
  \/ ProducerStoreWrite
  \/ ConsumerCall
  \/ ConsumerLoadWrite
  \/ ConsumerReadSlot
  \/ ConsumerStoreRead

Spec == Init /\ [][Next]_vars

(***************************************************************************)
(* Properties of the lock-free engine under Spec.                          *)
(***************************************************************************)

IsPrefix(xs, ys) == Len(xs) <= Len(ys) /\ \A i \in 1..Len(xs) : xs[i] = ys[i]

(* The elements resident: successful pushes minus successful pops. *)
Resident == Len(pushed) - Len(popped)

(* The values of the slots from read up to write, oldest first. *)
Contents ==
  [k \in 1..((write - read + capacity) % capacity) |-> buffer[(read + k - 1) % capacity]]

(* The slots of the values pushed and not yet popped: the k-th accepted    *)
(* push (from 0) went to slot k mod capacity.                              *)
UnreadSlots == {k % capacity : k \in Len(popped)..(Len(pushed) - 1)}

(* No push and no pop is in progress. *)
Quiescent == p_pc = "idle" /\ c_pc = "idle"

InPushSlot == p_pc \in {"store_slot", "store_write"}

InPopSlot == c_pc \in {"read_slot", "store_read"}

(* The step of push that decides full or not, and the one of pop that      *)
(* decides empty or not.                                                   *)
PushDecides == p_pc = "load_read" /\ p_pc' # "load_read"

PopDecides == c_pc = "load_write" /\ c_pc' # "load_write"

(* C1: at every point of every interleaving of the steps of push and pop,  *)
(* the values returned by the successful pops are a prefix of the values   *)
(* accepted by the successful pushes: nothing is lost, delivered twice,    *)
(* invented or reordered.                                                  *)
C1_PoppedIsPrefixOfPushed == IsPrefix(popped, pushed)

(* More values than slots were delivered, two of them different. *)
C1_Witness ==
  /\ capacity >= 2
  /\ Len(popped) > capacity
  /\ popped[1] # popped[2]

(* C2: the producer is never between its full check and its store of the   *)
(* write cursor on slot i while the consumer is between its empty check    *)
(* and its store of the read cursor on the same slot i; the slot the       *)
(* producer is storing into is none of the slots that hold a value pushed  *)
(* and not yet popped.                                                     *)
C2_SlotNeverShared ==
  /\ ~(InPushSlot /\ InPopSlot /\ p_write = c_read)
  /\ InPushSlot => p_write \notin UnreadSlots

(* Both threads are at their slot at once, after the cursors wrapped. *)
C2_Witness ==
  /\ InPushSlot /\ InPopSlot
  /\ p_write # c_read
  /\ Len(pushed) >= capacity

(* C3: the resident count is always within 0 .. capacity - 1, and a push   *)
(* that passed the full check found at most capacity - 2 elements: a push  *)
(* into a buffer holding capacity - 1 is rejected.                         *)
C3_ResidentBelowCapacity ==
  /\ 0 <= Resident
  /\ Resident <= capacity - 1
  /\ InPushSlot => Resident <= capacity - 2

(* A buffer that holds capacity - 1 elements has rejected a push. *)
C3_Witness ==
  /\ capacity >= 2
  /\ Resident = capacity - 1
  /\ p_pc = "idle"
  /\ p_ret.tag = "PushError"

(* C4: between operations the buffer holds no element iff read = write and *)
(* capacity - 1 elements iff (write + 1) mod capacity = read; the step of  *)
(* push that decides rejects exactly when capacity - 1 elements are        *)
(* resident, and the one of pop returns None exactly when none is.         *)
C4_EmptyAndFullConditions ==
  /\ [](Quiescent =>
          /\ (Resident = 0 <=> read = write)
          /\ (Resident = capacity - 1 <=> NextIdx(write, capacity) = read))
  /\ [][/\ PushDecides => (p_ret'.tag = "PushError" <=> Resident = capacity - 1)
        /\ PopDecides => (c_ret' = None <=> Resident = 0)]_vars

(* A full buffer between operations, its cursors wrapped, a push rejected. *)
C4_Witness ==
  /\ Quiescent
  /\ capacity >= 2
  /\ NextIdx(write, capacity) = read
  /\ write < read
  /\ p_ret.tag = "PushError"
  /\ c_ret = None

(* C6, as claimed: a rejected push hands the submitted value back inside   *)
(* the error.                                                              *)
C6_RejectedPushReturnsValue ==
  (p_pc = "idle" /\ p_ret.tag = "PushError") => p_ret.n = p_value

(* C6, amended: a rejected push returns PushError carrying the write       *)
(* cursor, the index of the slot it did not fill; the value is not part of *)
(* what push returns.                                                      *)
C6_RejectedPushReturnsWriteCursor ==
  (p_pc = "idle" /\ p_ret.tag = "PushError") =>
     /\ p_ret = [tag |-> "PushError", n |-> write]
     /\ DOMAIN p_ret = {"tag", "n"}

(* A push was rejected whose value differs from the write cursor. *)
C6_Witness ==
  /\ p_pc = "idle"
  /\ p_ret.tag = "PushError"
  /\ p_value # write

(* C7: the steps of a rejected push (the load of write, the load of read   *)
(* that finds the buffer full) leave read, write and every slot as they    *)
(* were, and with them the values the later pops return.                   *)
C7_RejectedPushChangesNothing ==
  [][((p_pc = "idle" /\ p_pc' = "load_read") \/ (p_pc = "load_read" /\ p_pc' = "idle")) =>
       /\ read' = read /\ write' = write /\ buffer' = buffer
       /\ Contents' = Contents
       /\ pushed' = pushed /\ popped' = popped]_vars

(* A push was rejected by a full buffer whose slots all hold pushed values. *)
C7_Witness ==
  /\ capacity >= 2
  /\ p_pc = "idle"
  /\ p_ret.tag = "PushError"
  /\ Len(Contents) = capacity - 1
  /\ \A i \in 0..(capacity - 1) : buffer[i] # Zeroed

(* C8: the steps of a pop that finds the buffer empty return None and      *)
(* leave read, write and every slot as they were; the pop that follows an  *)
(* empty pop and succeeds returns the first value pushed since.            *)
C8_EmptyPopChangesNothing ==
  /\ [][((c_pc = "idle" /\ c_pc' = "load_write") \/ (c_pc = "load_write" /\ c_pc' = "idle")) =>
          /\ read' = read /\ write' = write /\ buffer' = buffer
          /\ (c_pc' = "idle" => c_ret' = None /\ Resident = 0)]_vars
  /\ []((c_pc = "idle" /\ c_last = None /\ c_ret.tag = "Some") =>
          /\ Len(popped) >= 1
          /\ c_ret.val = pushed[Len(popped)]
          /\ c_ret.idx = (Len(popped) - 1) % capacity)

(* An empty pop, then a push, then a pop that returned the pushed value. *)
C8_Witness ==
  /\ c_pc = "idle"
  /\ c_last = None
  /\ c_ret.tag = "Some"
  /\ Len(popped) >= 2

(***************************************************************************)
(* tests::spsc_ring_buffer: the stress scenario.  The producer thread      *)
(* pushes 0 .. COUNT-1, counts each accepted push on the tracker of the    *)
(* slot index push returned, skips a rejected value, and then signals      *)
(* through t.  The consumer thread pops until pop returns None, counting   *)
(* each pop down on the tracker of its slot index, and stops when it reads *)
(* t = 0 and empty() holds.                                                *)
(***************************************************************************)

(* const COUNT: u64 = 8 *)
COUNT == 8

(* SPSCRingBuffer::<u64>::new(16) *)
StressCap == 16

(* A consumer that stops on the signal alone. *)
self_emptyAlways == TRUE

(* pub fn empty(&self) -> bool: both cursors loaded Relaxed.  The consumer *)
(* calls it after it read t = 0 with a SeqCst load, which orders the       *)
(* producer's last store of write before these loads.                      *)
self_empty == read = write

(* let t = AtomicUsize::new(1); let q = SPSCRingBuffer::new(..);           *)
(* let tracker = (0..COUNT).map(|_| AtomicIsize::new(0))                   *)
(* The test's capacity holds every value pushed; the smaller capacities    *)
(* make the producer meet a full buffer and the cursors wrap.              *)
StressInit ==
  /\ \E cap \in (1..MaxCap) \cup {StressCap} : New(cap)
  /\ t = 1
  /\ tracker = [i \in 0..(COUNT - 1) |-> 0]
  /\ st_i = 0
  /\ st_ppc = "push"
  /\ st_cpc = "load_t"
  /\ MpscOff
  /\ SeqOff

(* for i in 0..COUNT { match q.push(i) *)
StressPush ==
  /\ st_ppc = "push"
  /\ st_i < COUNT
  /\ push_load_write(st_i)
  /\ st_ppc' = "match"
  /\ UNCHANGED <<consVars, p_calls, rt, t, tracker, st_i, st_cpc, mpVars, sqVars>>

(* Ok(n) => tracker[n].fetch_add(1), Err(PushError(x)) => sleep; continue  *)
StressPushMatch ==
  /\ st_ppc = "match"
  /\ p_pc = "idle"
  /\ IF p_ret.tag = "Ok"
       THEN IF p_ret.n \in DOMAIN tracker
              THEN /\ tracker' = [tracker EXCEPT ![p_ret.n] = @ + 1]
                   /\ st_ppc' = "push"
              ELSE /\ tracker' = tracker
                   /\ st_ppc' = "panicked"
       ELSE /\ tracker' = tracker
            /\ st_ppc' = "push"
  /\ st_i' = st_i + 1
  /\ UNCHANGED <<engVars, prodVars, consVars, histVars, t, st_cpc, mpVars, sqVars>>

(* t.fetch_sub(1, SeqCst) after the loop *)
StressSignal ==
  /\ st_ppc = "push"
  /\ st_i = COUNT
  /\ t' = t - 1
  /\ st_ppc' = "done"
  /\ UNCHANGED <<engVars, prodVars, consVars, histVars, tracker, st_i, st_cpc, mpVars, sqVars>>

(* loop { match t.load(SeqCst) { 0 if .. , _ => .. } } *)
StressLoadT ==
  /\ st_cpc = "load_t"
  /\ st_cpc' = IF t = 0 THEN "empty" ELSE "pop"
  /\ UNCHANGED <<engVars, prodVars, consVars, histVars, t, tracker, st_i, st_ppc, mpVars, sqVars>>

(* 0 if q.empty() => break *)
StressEmpty ==
  /\ st_cpc = "empty"
  /\ st_cpc' = IF self_empty THEN "done" ELSE "pop"
  /\ UNCHANGED <<engVars, prodVars, consVars, histVars, t, tracker, st_i, st_ppc, mpVars, sqVars>>

(* while let Some((idx, val)) = q.pop() *)
StressPop ==
  /\ st_cpc = "pop"
  /\ pop_load_read
  /\ st_cpc' = "pop_match"
  /\ UNCHANGED <<prodVars, p_calls, rt, t, tracker, st_i, st_ppc, mpVars, sqVars>>

(* Some((idx, val)) => tracker[idx].fetch_sub(1); None ends the while let  *)
StressPopMatch ==
  /\ st_cpc = "pop_match"
  /\ c_pc = "idle"
  /\ IF c_ret.tag = "Some"
       THEN IF c_ret.idx \in DOMAIN tracker
              THEN /\ tracker' = [tracker EXCEPT ![c_ret.idx] = @ - 1]
                   /\ st_cpc' = "pop"
              ELSE /\ tracker' = tracker
                   /\ st_cpc' = "panicked"
       ELSE /\ tracker' = tracker
            /\ st_cpc' = "load_t"
  /\ UNCHANGED <<engVars, prodVars, consVars, histVars, t, st_i, st_ppc, mpVars, sqVars>>

StressNext ==
  \/ StressPush
  \/ ProducerLoadRead
  \/ ProducerStoreSlot
  \/ ProducerStoreWrite
  \/ StressPushMatch
  \/ StressSignal
  \/ StressLoadT
  \/ StressEmpty
  \/ StressPop
  \/ ConsumerLoadWrite
  \/ ConsumerReadSlot
  \/ ConsumerStoreRead
  \/ StressPopMatch

StressSpec == StressInit /\ [][StressNext]_vars

(* C5: once both threads of the stress scenario have finished, every       *)
(* tracker is back at zero (each slot index was returned by as many pops   *)
(* as accepted pushes) and the popped values are exactly the accepted      *)
(* ones, each once and in order; neither thread indexed outside tracker.   *)
C5_StressTrackersZero ==
  /\ (st_ppc = "done" /\ st_cpc = "done") =>
        /\ \A i \in DOMAIN tracker : tracker[i] = 0
        /\ popped = pushed
  /\ st_ppc # "panicked" /\ st_cpc # "panicked"

(* Both threads finished, some pushes were accepted with the cursors       *)
(* wrapped, some were rejected.                                            *)
C5_Witness ==
  /\ st_ppc = "done" /\ st_cpc = "done"
  /\ capacity >= 2
  /\ Len(pushed) > capacity
  /\ Len(pushed) < COUNT

(***************************************************************************)
(* mpsc_lockfree_bounded.rs: RingBuffer<T> shared by two producer threads  *)
(* and one consumer thread.  try_push is the push of the lock-free engine; *)
(* nothing makes the load of write and the store of write of one producer  *)
(* atomic with respect to the other producer.  Two producers that store    *)
(* into the same slot race: the slot ends with the value of the store that *)
(* comes last in the interleaving, and either order is a behaviour.        *)
(***************************************************************************)

(* The calls of try_push each producer makes at most. *)
MpMaxPush == 2

(* The item producer p submits in its k-th call: no two calls share one. *)
Item(p, k) == 10 * p + k

(* Result<(), T> of try_push. *)
MpOk == [tag |-> "Ok"]

(* Err(item) *)
MpErr(item) == [tag |-> "Err", item |-> item]

(* What the threads of the multi-producer variant leave alone. *)
mp_frame == <<engVars, prodVars, consVars, histVars, stVars, sqVars>>

(* RingBuffer::new(capacity), capacity >= 1: with capacity 0 the first     *)
(* try_push divides by zero.                                               *)
MpNew(cap) ==
  /\ mp_capacity = cap
  /\ mp_buffer = [i \in 0..(cap - 1) |-> Zeroed]
  /\ mp_write = 0
  /\ mp_read = 0
  /\ mp_pc = [p \in Producers |-> "idle"]
  /\ mp_item = [p \in Producers |-> Zeroed]
  /\ mp_head = [p \in Producers |-> 0]
  /\ mp_next_head = [p \in Producers |-> 0]
  /\ mp_ret = [p \in Producers |-> NoRet]
  /\ mp_calls = [p \in Producers |-> 0]
  /\ mc_pc = "idle" /\ mc_tail = 0 /\ mc_item = Zeroed /\ mc_ret = NoRet
  /\ mp_popped = <<>>

(* let head = self.write.load(Relaxed); let next_head = (head + 1) % capacity *)
try_push_load_write(p) ==
  /\ mp_pc[p] = "idle"
  /\ mp_calls[p] < MpMaxPush
  /\ mp_calls' = [mp_calls EXCEPT ![p] = @ + 1]
  /\ mp_item' = [mp_item EXCEPT ![p] = Item(p, mp_calls[p] + 1)]
  /\ mp_head' = [mp_head EXCEPT ![p] = mp_write]
  /\ mp_next_head' = [mp_next_head EXCEPT ![p] = NextIdx(mp_write, mp_capacity)]
  /\ mp_ret' = [mp_ret EXCEPT ![p] = NoRet]
  /\ mp_pc' = [mp_pc EXCEPT ![p] = "load_read"]
  /\ UNCHANGED <<mp_capacity, mp_buffer, mp_write, mp_read>>
  /\ UNCHANGED <<mc_pc, mc_tail, mc_item, mc_ret, mp_popped, mp_frame>>

(* if next_head == self.read.load(Acquire) { return Err(item) } *)
try_push_load_read(p) ==
  /\ mp_pc[p] = "load_read"
  /\ IF IsFull(mp_next_head[p], mp_read)
       THEN /\ mp_ret' = [mp_ret EXCEPT ![p] = MpErr(mp_item[p])]
            /\ mp_pc' = [mp_pc EXCEPT ![p] = "idle"]
       ELSE /\ mp_ret' = mp_ret
            /\ mp_pc' = [mp_pc EXCEPT ![p] = "store_slot"]
  /\ UNCHANGED <<mp_capacity, mp_buffer, mp_write, mp_read>>
  /\ UNCHANGED <<mp_item, mp_head, mp_next_head, mp_calls>>
  /\ UNCHANGED <<mc_pc, mc_tail, mc_item, mc_ret, mp_popped, mp_frame>>

(* unsafe { *self.buffer[head].get() = item; } *)
try_push_store_slot(p) ==
  /\ mp_pc[p] = "store_slot"
  /\ mp_buffer' = [mp_buffer EXCEPT ![mp_head[p]] = mp_item[p]]
  /\ mp_pc' = [mp_pc EXCEPT ![p] = "store_write"]
  /\ UNCHANGED <<mp_capacity, mp_write, mp_read>>
  /\ UNCHANGED <<mp_item, mp_head, mp_next_head, mp_ret, mp_calls>>
  /\ UNCHANGED <<mc_pc, mc_tail, mc_item, mc_ret, mp_popped, mp_frame>>

(* try_push that claims its slot by advancing the shared cursor itself. *)
try_push_store_write_advances(p) ==
  /\ mp_pc[p] = "store_write"
  /\ mp_write' = NextIdx(mp_write, mp_capacity)
  /\ mp_ret' = [mp_ret EXCEPT ![p] = MpOk]
  /\ mp_pc' = [mp_pc EXCEPT ![p] = "idle"]
  /\ UNCHANGED <<mp_capacity, mp_buffer, mp_read>>
  /\ UNCHANGED <<mp_item, mp_head, mp_next_head, mp_calls>>
  /\ UNCHANGED <<mc_pc, mc_tail, mc_item, mc_ret, mp_popped, mp_frame>>

(* self.write.store(next_head, Release); Ok(()) *)
try_push_store_write(p) ==
  /\ mp_pc[p] = "store_write"
  /\ mp_write' = mp_next_head[p]
  /\ mp_ret' = [mp_ret EXCEPT ![p] = MpOk]
  /\ mp_pc' = [mp_pc EXCEPT ![p] = "idle"]
  /\ UNCHANGED <<mp_capacity, mp_buffer, mp_read>>
  /\ UNCHANGED <<mp_item, mp_head, mp_next_head, mp_calls>>
  /\ UNCHANGED <<mc_pc, mc_tail, mc_item, mc_ret, mp_popped, mp_frame>>

(* let tail = self.read.load(Relaxed); *)
mp_pop_load_read ==
  /\ mc_pc = "idle"
  /\ mc_tail' = mp_read
  /\ mc_ret' = NoRet
  /\ mc_pc' = "load_write"
  /\ UNCHANGED <<mp_capacity, mp_buffer, mp_write, mp_read>>
  /\ UNCHANGED <<mp_pc, mp_item, mp_head, mp_next_head, mp_ret, mp_calls>>
  /\ UNCHANGED <<mc_item, mp_popped, mp_frame>>

(* if tail == self.write.load(Acquire) { return None } *)
mp_pop_load_write ==
  /\ mc_pc = "load_write"
  /\ IF mc_tail = mp_write
       THEN /\ mc_ret' = None
            /\ mc_pc' = "idle"
       ELSE /\ mc_ret' = mc_ret
            /\ mc_pc' = "read_slot"
  /\ UNCHANGED <<mp_capacity, mp_buffer, mp_write, mp_read>>
  /\ UNCHANGED <<mp_pc, mp_item, mp_head, mp_next_head, mp_ret, mp_calls>>
  /\ UNCHANGED <<mc_tail, mc_item, mp_popped, mp_frame>>

(* let item = unsafe { std::ptr::read(self.buffer[tail].get()) }; *)
mp_pop_read_slot ==
  /\ mc_pc = "read_slot"
  /\ mc_item' = mp_buffer[mc_tail]
  /\ mc_pc' = "store_read"
  /\ UNCHANGED <<mp_capacity, mp_buffer, mp_write, mp_read>>
  /\ UNCHANGED <<mp_pc, mp_item, mp_head, mp_next_head, mp_ret, mp_calls>>
  /\ UNCHANGED <<mc_tail, mc_ret, mp_popped, mp_frame>>

(* self.read.store((tail + 1) % self.capacity, Release); Some(item) *)
mp_pop_store_read ==
  /\ mc_pc = "store_read"
  /\ mp_read' = NextIdx(mc_tail, mp_capacity)
  /\ mc_ret' = [tag |-> "Some", val |-> mc_item]
  /\ mc_pc' = "idle"
  /\ mp_popped' = Append(mp_popped, mc_item)
  /\ UNCHANGED <<mp_capacity, mp_buffer, mp_write>>
  /\ UNCHANGED <<mp_pc, mp_item, mp_head, mp_next_head, mp_ret, mp_calls>>
  /\ UNCHANGED <<mc_tail, mc_item, mp_frame>>

MpscInit ==
  /\ \E cap \in 1..MaxCap : MpNew(cap)
  /\ SpscOff
  /\ StressOff
  /\ SeqOff

MpscNext ==
  \/ \E p \in Producers : try_push_load_write(p)
  \/ \E p \in Producers : try_push_load_read(p)
  \/ \E p \in Producers : try_push_store_slot(p)
  \/ \E p \in Producers : try_push_store_write(p)
  \/ mp_pop_load_read
  \/ mp_pop_load_write
  \/ mp_pop_read_slot
  \/ mp_pop_store_read

MpscSpec == MpscInit /\ [][MpscNext]_vars

(* Both producers made one call of try_push, both calls returned Ok, and   *)
(* both had loaded the same write cursor (so each loaded it before the     *)
(* other stored the new one); no further call has started.                 *)
BothOkFromSameCursor ==
  /\ \A p \in Producers :
        mp_calls[p] = 1 /\ mp_pc[p] = "idle" /\ mp_ret[p] = MpOk
  /\ mp_head[1] = mp_head[2]

(* C9: when two producers loaded the same write cursor and both calls of   *)
(* try_push returned Ok, the write cursor has advanced by one only, and of *)
(* the two items at most one is ever popped.                               *)
C9_TwoProducersLoseAnItem ==
  BothOkFromSameCursor =>
     /\ mp_write = NextIdx(mp_head[1], mp_capacity)
     /\ mp_write = 1
     /\ Len(mp_popped) <= 1
     /\ \A i \in 1..Len(mp_popped) : mp_popped[i] \in {Item(1, 1), Item(2, 1)}

(* Both calls returned Ok from the same cursor, one item was popped, and   *)
(* the next pop found the buffer empty: the other item is gone.            *)
C9_Witness ==
  /\ BothOkFromSameCursor
  /\ Len(mp_popped) = 1
  /\ mc_pc = "idle"
  /\ mc_ret = None
  /\ mp_read = mp_write

(***************************************************************************)
(* lib.rs: SPSCRingBuffer, the single-threaded buffer.  One thread calls   *)
(* push, force_push and pop in any order; each call is one step.  read and *)
(* write are u64 cursors folded modulo 64 * capacity, the slot of a cursor *)
(* is the cursor modulo capacity.  wrapped_distance subtracts in u64: with *)
(* overflow checks (a debug build) a negative difference panics, without   *)
(* them (a release build) it wraps modulo 2^64; both builds are modelled.  *)
(* print_status and dbg! change no state.                                  *)
(***************************************************************************)

(* Bounds of the sequential model. *)
SqMaxCap == 3
SqMaxValue == 2
SqMaxForce == 200
SqMaxAfterWrap == 3

(* The values a caller pushes. *)
SqValues == 1..SqMaxValue

(* const SENTINEL_VALUE: u64 = 0xdeadc0de, written over a popped slot.  It *)
(* exceeds the integers of the model checker; a value no caller pushes     *)
(* here stands for it.                                                     *)
SENTINEL_VALUE == -1

(* fold: val % (64 * capacity) *)
CursorLaps == 64

(* The width of the cursors: read: u64, write: u64. *)
U64Bits == 64

(* 2^k modulo m, by squaring. *)
RECURSIVE Pow2Mod(_, _)
Pow2Mod(k, m) ==
  IF k = 0 THEN 1 % m
  ELSE IF k % 2 = 0
    THEN LET h == Pow2Mod(k \div 2, m) IN (h * h) % m
    ELSE (2 * Pow2Mod(k - 1, m)) % m

(* (x mod 2^64) % m for a difference x of two u64 values: what the wrapping *)
(* subtraction followed by % m yields.                                     *)
U64Mod(x, m) == IF x >= 0 THEN x % m ELSE ((x % m) + Pow2Mod(U64Bits, m)) % m

(* self.buffer.capacity() *)
sq_capacity == Cardinality(DOMAIN sq_buffer)

(* fn fold(&self, val: u64) -> u64 *)
fold(val) == val % (CursorLaps * sq_capacity)

(* fn modulo(&self, val: u64) -> u64 *)
modulo(val) == val % sq_capacity

(* self.write + capacity - self.read is negative: the u64 subtraction in    *)
(* wrapped_distance overflows.                                             *)
sq_underflows == sq_write < sq_read /\ sq_write + sq_capacity < sq_read

(* pub fn wrapped_distance(&self) -> u64 *)
wrapped_distance ==
  IF sq_write >= sq_read
    THEN (sq_write - sq_read) % sq_capacity
    ELSE U64Mod(sq_write + sq_capacity - sq_read, sq_capacity)

(* pub fn size(&self) -> usize *)
sq_size == wrapped_distance

(* free() that reserves no slot. *)
sq_free_no_sentinel == sq_capacity - sq_size

(* pub fn free(&self) -> usize: "Use one slot as sentinel." *)
sq_free == sq_capacity - sq_size - 1

(* full() that holds while one slot is still free. *)
sq_full_one_free == sq_free = 1

(* pub fn full(&self) -> bool *)
sq_full == sq_free = 0

(* pub fn empty(&self) -> bool *)
sq_empty == sq_write = sq_read

(* A call whose arithmetic overflows panics in a build with overflow checks. *)
sq_panics == sq_checks /\ sq_underflows

(* Results of the calls: push -> bool, force_push -> (),                   *)
(* pop -> Result<u64, SPSCRingBufferError>.                                *)
SqBool(b) == [tag |-> "bool", b |-> b]

SqUnit == [tag |-> "unit"]

SqOk(v) == [tag |-> "Ok", v |-> v]

SqPopError(w) == [tag |-> "PopError", w |-> w]

(* What the single thread of lib.rs leaves alone. *)
sq_frame == <<engVars, prodVars, consVars, histVars, stVars, mpVars>>

(* The last n elements of a sequence. *)
LastN(xs, n) == IF Len(xs) <= n THEN xs ELSE SubSeq(xs, Len(xs) - n + 1, Len(xs))

(* SPSCRingBuffer::new(cap): vec!(0; cap), read = write = 0; cap >= 1,    *)
(* with cap = 0 every call divides by zero.                                *)
SqNew(cap) ==
  /\ sq_buffer = [i \in 0..(cap - 1) |-> 0]
  /\ sq_read = 0
  /\ sq_write = 0
  /\ sq_ret = NoRet
  /\ sq_panicked = FALSE
  /\ sq_after = 0
  /\ sq_mode = "forced"
  /\ sq_forced = 0
  /\ sq_recent = <<>>
  /\ sq_drain = <<>>
  /\ sq_op = "none"
  /\ sq_resident = <<>>
  /\ sq_wrapped = FALSE

(* A sequence without its first element; nothing is left of an empty one. *)
Rest(xs) == IF Len(xs) = 0 THEN <<>> ELSE Tail(xs)

(* fold(w + 1) starts the cursor w over at 0: it passes the modulus. *)
SqWraps(w) == w + 1 >= CursorLaps * sq_capacity

(* The call aborts the program inside full(). *)
SqPanic ==
  /\ sq_panicked' = TRUE
  /\ UNCHANGED <<sq_buffer, sq_read, sq_write, sq_ret, sq_checks>>
  /\ UNCHANGED <<sq_resident, sq_wrapped>>

(* A call can be made: the program has not panicked.  Once a subtraction   *)
(* has wrapped (a build without overflow checks), SqMaxAfterWrap more      *)
(* calls are followed.                                                     *)
SqCanCall == ~sq_panicked /\ sq_after <= SqMaxAfterWrap

(* Counts the calls from the first one whose subtraction wrapped. *)
SqCount(wraps) ==
  sq_after' = IF sq_after > 0 THEN sq_after + 1 ELSE IF wraps THEN 1 ELSE 0

(* The history once the calls are no longer force_push calls followed by   *)
(* pops: it is not followed further.                                       *)
SqHistoryMixed ==
  /\ sq_mode' = "mixed"
  /\ sq_forced' = 0
  /\ sq_recent' = <<>>
  /\ sq_drain' = <<>>

(* pub fn push(&mut self, v: u64) -> bool *)
SqPush(v) ==
  /\ SqCanCall
  /\ SqCount(sq_underflows /\ ~sq_checks)
  /\ IF sq_panics
       THEN SqPanic
       ELSE /\ IF ~sq_full
                 THEN /\ sq_buffer' = [sq_buffer EXCEPT ![modulo(sq_write)] = v]
                      /\ sq_write' = fold(sq_write + 1)
                      /\ sq_ret' = SqBool(TRUE)
                      /\ sq_resident' = Append(sq_resident, v)
                      /\ sq_wrapped' = (sq_wrapped \/ SqWraps(sq_write))
                 ELSE /\ UNCHANGED <<sq_buffer, sq_write>>
                      /\ sq_ret' = SqBool(FALSE)
                      /\ UNCHANGED <<sq_resident, sq_wrapped>>
            /\ UNCHANGED <<sq_read, sq_checks, sq_panicked>>
  /\ sq_op' = "push"
  /\ SqHistoryMixed
  /\ UNCHANGED sq_frame

(* pub fn force_push(&mut self, v: u64) *)
SqForcePush(v) ==
  /\ SqCanCall
  /\ SqCount(sq_underflows /\ ~sq_checks)
  /\ IF sq_panics
       THEN SqPanic
       ELSE /\ sq_read' = IF sq_full THEN fold(sq_read + 1) ELSE sq_read
            /\ sq_buffer' = [sq_buffer EXCEPT ![modulo(sq_write)] = v]
            /\ sq_write' = fold(sq_write + 1)
            /\ sq_ret' = SqUnit
            /\ sq_resident' = Append(IF sq_full THEN Rest(sq_resident) ELSE sq_resident, v)
            /\ sq_wrapped' = (sq_wrapped \/ SqWraps(sq_write))
            /\ UNCHANGED <<sq_checks, sq_panicked>>
  /\ sq_op' = "force_push"
  /\ IF sq_mode = "forced" /\ sq_forced < SqMaxForce
       THEN /\ sq_mode' = "forced"
            /\ sq_forced' = sq_forced + 1
            /\ sq_recent' = LastN(Append(sq_recent, v), sq_capacity)
            /\ sq_drain' = <<>>
       ELSE SqHistoryMixed
  /\ UNCHANGED sq_frame

(* pub fn pop(&mut self) -> Result<u64, SPSCRingBufferError> *)
SqPop ==
  /\ SqCanCall
  /\ SqCount(FALSE)
  /\ IF sq_empty
       THEN /\ sq_ret' = SqPopError(sq_write)
            /\ UNCHANGED <<sq_buffer, sq_read, sq_resident>>
       ELSE /\ sq_ret' = SqOk(sq_buffer[modulo(sq_read)])
            /\ sq_buffer' = [sq_buffer EXCEPT ![modulo(sq_read)] = SENTINEL_VALUE]
            /\ sq_read' = fold(sq_read + 1)
            /\ sq_resident' = Rest(sq_resident)
  /\ UNCHANGED <<sq_write, sq_checks, sq_panicked, sq_wrapped>>
  /\ sq_op' = "pop"
  /\ IF sq_mode \in {"forced", "drain"} /\ Len(sq_drain) <= sq_capacity
       THEN /\ sq_mode' = "drain"
            /\ sq_drain' = Append(sq_drain, sq_ret')
            /\ UNCHANGED <<sq_forced, sq_recent>>
       ELSE SqHistoryMixed
  /\ UNCHANGED sq_frame

SeqInit ==
  /\ \E cap \in 1..SqMaxCap : SqNew(cap)
  /\ sq_checks \in BOOLEAN
  /\ SpscOff
  /\ StressOff
  /\ MpscOff

SeqNext ==
  \/ \E v \in SqValues : SqPush(v)
  \/ \E v \in SqValues : SqForcePush(v)
  \/ SqPop

SeqSpec == SeqInit /\ [][SeqNext]_vars

(* The calls so far are M force_push calls and then only pops. *)
OnlyForcedThenPops == sq_mode \in {"forced", "drain"}

(* C10, as claimed: after M > capacity calls of force_push and no pop, the  *)
(* pops return the last capacity values pushed, oldest first, and the pop  *)
(* after them fails as empty.                                              *)
C10_ForcePushKeepsLastCapacity ==
  (OnlyForcedThenPops /\ sq_forced > sq_capacity) =>
     \A k \in 1..Len(sq_drain) :
        IF k <= sq_capacity
          THEN sq_drain[k] = SqOk(sq_recent[k])
          ELSE sq_drain[k].tag = "PopError"

(* C10, amended: after M calls of force_push, capacity < M <= 64 * capacity *)
(* (the write cursor has not yet passed the cursor modulus), and no pop,   *)
(* no call has panicked and the pops return the last capacity - 1 values   *)
(* pushed, oldest first; the pop after them fails as empty.                *)
C10_ForcePushKeepsLastCapacityMinusOne ==
  (OnlyForcedThenPops /\ sq_forced > sq_capacity
     /\ sq_forced <= CursorLaps * sq_capacity) =>
     /\ ~sq_panicked
     /\ \A k \in 1..Len(sq_drain) :
           IF k <= sq_capacity - 1
             THEN sq_drain[k] = SqOk(sq_recent[k + 1])
             ELSE sq_drain[k] = SqPopError(sq_write)

(* More than two laps of force_push, then capacity - 1 values popped and   *)
(* one failed pop.                                                         *)
C10_Witness ==
  /\ sq_mode = "drain"
  /\ sq_capacity >= 2
  /\ sq_forced > 2 * sq_capacity
  /\ Len(sq_drain) = sq_capacity
  /\ sq_drain[sq_capacity].tag = "PopError"
  /\ sq_drain[1].tag = "Ok"

(***************************************************************************)
(* Properties of the sequential buffer under SeqSpec.                      *)
(***************************************************************************)

(* The step is a call of push, of force_push, of pop. *)
SqPushCalled == sq_op' = "push"

SqForcePushCalled == sq_op' = "force_push"

SqPopCalled == sq_op' = "pop"

(* C11, as claimed: no slot is reserved.  size() is the number of resident  *)
(* elements, free() is capacity - size(), full() holds exactly at capacity  *)
(* resident elements, and push is rejected only then.                      *)
C11_AllSlotsUsable ==
  /\ [](~sq_wrapped =>
          /\ sq_size = Len(sq_resident)
          /\ sq_free = sq_capacity - sq_size
          /\ sq_full <=> Len(sq_resident) = sq_capacity)
  /\ [][(SqPushCalled /\ ~sq_wrapped) =>
          (sq_ret' = SqBool(TRUE) <=> Len(sq_resident) < sq_capacity)]_vars

(* C11, amended: one slot is reserved.  For capacity >= 2 and as long as    *)
(* the write cursor has not passed the cursor modulus 64 * capacity, no     *)
(* call panics, size() is the number of resident elements, free() is        *)
(* capacity - size() - 1, full() holds exactly at capacity - 1 resident     *)
(* elements, and push succeeds exactly when fewer than capacity - 1 are     *)
(* resident: from empty, capacity - 1 pushes succeed and the next fails.    *)
C11_OneSlotReserved ==
  /\ []((sq_capacity >= 2 /\ ~sq_wrapped) =>
          /\ ~sq_panicked
          /\ sq_size = Len(sq_resident)
          /\ sq_free = sq_capacity - sq_size - 1
          /\ sq_full <=> Len(sq_resident) = sq_capacity - 1
          /\ Len(sq_resident) <= sq_capacity - 1)
  /\ [][(SqPushCalled /\ sq_capacity >= 2 /\ ~sq_wrapped) =>
          /\ sq_ret' = SqBool(Len(sq_resident) < sq_capacity - 1)
          /\ ~sq_panicked']_vars

(* capacity - 1 values are resident, pushed by push alone, and the push     *)
(* after them was rejected.                                                *)
C11_Witness ==
  /\ sq_capacity >= 3
  /\ ~sq_wrapped
  /\ sq_op = "push"
  /\ sq_ret = SqBool(FALSE)
  /\ Len(sq_resident) = sq_capacity - 1
  /\ sq_write = sq_capacity - 1
  /\ sq_read = 0
  /\ sq_full

(* C12, as claimed: once the write cursor has passed the cursor modulus, no *)
(* call has failed with an arithmetic overflow and none would (size(),      *)
(* free() and full() subtract as push and force_push do), size() is the     *)
(* number of elements pushed and neither popped nor evicted, free() is      *)
(* consistent with it, and full() and empty() agree with that count.        *)
C12_WraparoundKeepsCount ==
  (sq_capacity >= 2 /\ sq_wrapped) =>
     /\ ~sq_panicked
     /\ ~sq_panics
     /\ sq_size = Len(sq_resident)
     /\ sq_free = sq_capacity - Len(sq_resident) - 1
     /\ sq_full <=> Len(sq_resident) = sq_capacity - 1
     /\ sq_empty <=> Len(sq_resident) = 0

(***************************************************************************)
(* More properties of the lock-free engine under Spec.                     *)
(***************************************************************************)

(* A push that started on an empty buffer with no pop under way has        *)
(* returned and no step of pop came in between; the pop called right after *)
(* it has returned and no step of push came in between.                    *)
RtPushReturned == rt \in {"pushed", "popping", "popped"}

RtPopReturned == rt = "popped"

(* C13, as claimed: on every reachable empty buffer push(v) succeeds, the   *)
(* pop that follows at once returns v and the slot index push returned,    *)
(* and the buffer is empty again.                                          *)
C13_RoundTrip ==
  /\ RtPushReturned => p_ret.tag = "Ok"
  /\ RtPopReturned => (c_ret = Some(p_ret.n, p_value) /\ read = write)

(* C13, amended: the same for capacity >= 2; with capacity 1 the push is    *)
(* rejected.                                                               *)
C13_RoundTripFromCapacityTwo ==
  capacity >= 2 =>
    /\ RtPushReturned => (p_ret.tag = "Ok" /\ p_ret.n \in 0..(capacity - 1))
    /\ RtPopReturned =>
         /\ c_ret = Some(p_ret.n, p_value)
         /\ read = write
         /\ Resident = 0

(* The round trip was made on an empty buffer whose cursors had wrapped    *)
(* and stood past slot 0, over a slot that held another value before.      *)
C13_Witness ==
  /\ RtPopReturned
  /\ capacity >= 2
  /\ Len(pushed) > capacity
  /\ p_ret.tag = "Ok" /\ p_ret.n >= 1
  /\ c_ret.tag = "Some"
  /\ pushed[Len(pushed) - capacity] # p_value

(* The pushes whose value pop has handed to the consumer: the pops that     *)
(* returned, and the one that has read its slot and is about to return.    *)
HandedOut == 1..(Len(popped) + (IF c_pc = "store_read" THEN 1 ELSE 0))

(* C14, as claimed: a value pop has handed to the consumer is not returned  *)
(* by a later pop (the k-th pop returns the value of the k-th push) and is *)
(* never dropped by the buffer, not even when a later push stores into the *)
(* slot it was read from.                                                  *)
C14_PoppedValueNeverDropped ==
  /\ IsPrefix(popped, pushed)
  /\ dropped \cap HandedOut = {}

(* A step of the producer thread inside push, of the consumer thread       *)
(* inside pop: each step of a call moves the thread's position.            *)
PushSteps == p_pc' # p_pc

PopSteps == c_pc' # c_pc

(* The last step of a push that succeeds, of a pop that succeeds. *)
PushSucceeds == p_pc = "store_write" /\ p_pc' = "idle"

PopSucceeds == c_pc = "store_read" /\ c_pc' = "idle"

(* C15: no step of push, accepted or rejected, changes the read cursor; no  *)
(* step of pop, successful or empty, changes the write cursor or a slot;   *)
(* write changes only in the last step of a successful push and read only  *)
(* in the last step of a successful pop, each to the next index modulo     *)
(* capacity; both cursors stay within 0 .. capacity - 1.                   *)
C15_CursorOwnership ==
  /\ [](read \in 0..(capacity - 1) /\ write \in 0..(capacity - 1))
  /\ [][/\ PushSteps => read' = read
        /\ PopSteps => (write' = write /\ buffer' = buffer)
        /\ write' # write => (PushSucceeds /\ p_ret'.tag = "Ok")
        /\ read' # read => (PopSucceeds /\ c_ret'.tag = "Some")
        /\ PushSucceeds => write' = NextIdx(write, capacity)
        /\ PopSucceeds => read' = NextIdx(read, capacity)]_vars

(* Both cursors have wrapped, a push was rejected and a pop found the       *)
(* buffer empty.                                                           *)
C15_Witness ==
  /\ capacity >= 2
  /\ Quiescent
  /\ Len(popped) > capacity
  /\ p_ret.tag = "PushError"
  /\ c_ret = None

(* C16: the push that is accepted as the k-th (k from 0) returns Ok(k mod   *)
(* capacity); the pop that succeeds as the k-th returns slot index k mod   *)
(* capacity and the value of the k-th accepted push, so a value is popped  *)
(* with the index it was pushed with.                                      *)
C16_SlotIndices ==
  /\ [][/\ PushSucceeds =>
             /\ p_ret' = Ok(Len(pushed) % capacity)
             /\ pushed' = Append(pushed, p_value)
        /\ PopSucceeds =>
             /\ Len(popped) < Len(pushed)
             /\ c_ret' = Some(Len(popped) % capacity, pushed[Len(popped) + 1])
             /\ popped' = Append(popped, c_ret'.val)]_vars
  /\ []((p_pc = "idle" /\ p_ret.tag = "Ok") => p_ret.n = (Len(pushed) - 1) % capacity)
  /\ []((c_pc = "idle" /\ c_ret.tag = "Some") => c_ret.idx = (Len(popped) - 1) % capacity)

(* A value pushed after the cursors wrapped has been popped, both returned  *)
(* the index of a slot other than the last one.                            *)
C16_Witness ==
  /\ capacity = 3
  /\ Quiescent
  /\ Len(pushed) = 5
  /\ Len(popped) = 5
  /\ p_ret = Ok(1)
  /\ c_ret.tag = "Some" /\ c_ret.idx = 1

(* What successive pops return until one fails: pop consults read == write  *)
(* alone, so they return the slots from the read cursor up to the write    *)
(* cursor, cursors taken modulo 64 * capacity.                             *)
SqDrain ==
  [k \in 1..((sq_write - sq_read) % (CursorLaps * sq_capacity)) |->
     sq_buffer[modulo(sq_read + k - 1)]]

(* C17, as claimed: force_push never fails; on a buffer that is not full it *)
(* leaves read alone, size() grows by one and the pops return what they    *)
(* would have returned and then v; on a full buffer it advances read by    *)
(* one, size() stays and the pops return what they would have returned     *)
(* without the oldest value, and then v.                                   *)
C17_ForcePushSemantics ==
  [][SqForcePushCalled =>
       /\ ~sq_panicked' /\ ~sq_panics'
       /\ sq_ret' = SqUnit
       /\ IF sq_full
            THEN /\ sq_read' = fold(sq_read + 1)
                 /\ sq_size' = sq_size
                 /\ \E v \in SqValues : SqDrain' = Append(Rest(SqDrain), v)
            ELSE /\ sq_read' = sq_read
                 /\ sq_size' = sq_size + 1
                 /\ \E v \in SqValues : SqDrain' = Append(SqDrain, v)]_vars

(* C18, as claimed: push on a full buffer returns false and leaves read,    *)
(* write and every slot as they were; push on a buffer that is not full    *)
(* returns true and size() grows by exactly one.                           *)
C18_PushSemantics ==
  [][SqPushCalled =>
       /\ ~sq_panicked'
       /\ IF sq_full
            THEN /\ sq_ret' = SqBool(FALSE)
                 /\ UNCHANGED <<sq_read, sq_write, sq_buffer>>
                 /\ SqDrain' = SqDrain
            ELSE /\ sq_ret' = SqBool(TRUE)
                 /\ ~sq_panics'
                 /\ sq_size' = sq_size + 1]_vars

(* C19, as claimed: pop on an empty buffer fails with PopError carrying the *)
(* write cursor and leaves read, write and every slot as they were; pop on *)
(* a buffer that is not empty returns the oldest resident value and size() *)
(* (which can be computed before and after) goes down by exactly one.      *)
C19_PopSemantics ==
  [][SqPopCalled =>
       IF sq_empty
         THEN /\ sq_ret' = SqPopError(sq_write)
              /\ UNCHANGED <<sq_read, sq_write, sq_buffer>>
         ELSE /\ Len(sq_resident) > 0
              /\ sq_ret' = SqOk(Head(sq_resident))
              /\ ~sq_panics /\ ~sq_panics'
              /\ sq_size' = sq_size - 1]_vars

(***************************************************************************)
(* Progress of the lock-free engine.  The producer thread pushes the       *)
(* values 1 .. LiveCount in order and calls push again with the same value *)
(* after a rejection; the consumer thread calls pop until it has received  *)
(* LiveCount values.  Each thread runs on its own core (std::thread::scope *)
(* in tests::spsc_ring_buffer): a thread that can take a step eventually   *)
(* takes it, which is weak fairness of each thread's steps.                *)
(***************************************************************************)

(* The number of values the producer has to deliver. *)
LiveCount == 4

(* The producer calls push with the first value not yet accepted. *)
LiveProducerCall ==
  /\ Len(pushed) < LiveCount
  /\ push_load_write(Len(pushed) + 1)
  /\ UNCHANGED <<consVars, p_calls, rt, outside>>

(* The consumer calls pop as long as values are outstanding. *)
LiveConsumerCall ==
  /\ Len(popped) < LiveCount
  /\ pop_load_read
  /\ UNCHANGED <<prodVars, p_calls, rt, outside>>

(* The steps of the producer thread, of the consumer thread. *)
LiveProducer ==
  \/ LiveProducerCall
  \/ ProducerLoadRead
  \/ ProducerStoreSlot
  \/ ProducerStoreWrite

LiveConsumer ==
  \/ LiveConsumerCall
  \/ ConsumerLoadWrite
  \/ ConsumerReadSlot
  \/ ConsumerStoreRead

LiveNext == LiveProducer \/ LiveConsumer

LiveSpec ==
  /\ Init
  /\ [][LiveNext]_vars
  /\ WF_vars(LiveProducer)
  /\ WF_vars(LiveConsumer)

(* Every value was accepted and popped, in order, and both threads have    *)
(* returned from their last call.                                          *)
LiveDone ==
  /\ pushed = [k \in 1..LiveCount |-> k]
  /\ popped = pushed
  /\ Quiescent

(* C20: with capacity >= 2 the buffer is never full and empty at once (a    *)
(* push or a pop can succeed), and the retrying producer and the consumer  *)
(* end with every value popped and both threads terminated; with capacity  *)
(* 1 every push is rejected and every pop returns None, the buffer never   *)
(* holds an element.                                                       *)
C20_Progress ==
  /\ [](capacity >= 2 => ~(read = write /\ NextIdx(write, capacity) = read))
  /\ (capacity >= 2 => <>[]LiveDone)
  /\ [](capacity = 1 =>
          /\ read = write /\ NextIdx(write, capacity) = read
          /\ pushed = <<>> /\ popped = <<>>
          /\ p_ret.tag # "Ok" /\ c_ret.tag # "Some"
          /\ p_pc \in {"idle", "load_read"} /\ c_pc \in {"idle", "load_write"})

(* Both threads have terminated with every value delivered through a       *)
(* buffer smaller than the number of values; the consumer had found the    *)
(* buffer empty just before its last pop.                                  *)
C20_Witness ==
  /\ LiveDone
  /\ capacity = 2
  /\ c_last = None
  /\ c_ret = Some(1, LiveCount)

=============================================================================
